---- MODULE Spec2Model ----
(***************************************************************************)
(* Equal-risk-contribution solvers and rolling drivers of                  *)
(* optimalportfolios/optimization/solvers/risk_parity.py.                  *)
(*                                                                         *)
(* Numbers are carried exactly, as integers over a stated denominator:     *)
(* a weight w is the integer w * WeightUnit, a risk-budget entry b is the  *)
(* integer b * den of its series.  NaN is a value of its own.  An optional *)
(* argument (Python None) is a record with the field some.                 *)
(* A covariance matrix is carried by its index (the tickers of its rows    *)
(* and columns, in order), its diagonal, and the number of times it has    *)
(* been squeezed; the matrices drawn as inputs are diagonal.               *)
(***************************************************************************)
EXTENDS Integers, Sequences, FiniteSets, TLC

\* ------------------------------------------------------------------ bounds
MaxDates == 2
WeightUnit == 2
BudgetUnit == 2

\* ------------------------------------------------------------------ values
NaN == -1

None == [some |-> FALSE]

Some(v) == [some |-> TRUE, v |-> v]

ToSet(s) == {s[i] : i \in 1..Len(s)}

RECURSIVE SumSeq(_)
SumSeq(s) == IF s = <<>> THEN 0 ELSE Head(s) + SumSeq(Tail(s))

\* position of label t in index idx
PosOf(t, idx) == CHOOSE i \in 1..Len(idx) : idx[i] = t

\* ------------------------------------------------------- pandas and numpy
\* pd.Series: labels in order, a value per label, the denominator of the values
Series(idx, f, d) == [index |-> idx, val |-> [t \in ToSet(idx) |-> f[t]], den |-> d]

\* Series.reindex(index=idx): labels absent from the series get NaN
reindex(s, idx) ==
    [index |-> idx,
     val |-> [t \in ToSet(idx) |-> IF t \in DOMAIN s.val THEN s.val[t] ELSE NaN],
     den |-> s.den]

\* Series.fillna(v)
fillna(s, v) == [s EXCEPT !.val = [t \in DOMAIN s.val |-> IF s.val[t] = NaN THEN v ELSE s.val[t]]]

\* Series.loc[idx], every label of idx being in the series
loc(s, idx) == [index |-> idx, val |-> [t \in ToSet(idx) |-> s.val[t]], den |-> s.den]

\* series *= num / den (NaN stays NaN)
imul(s, num, den) ==
    [s EXCEPT !.val = [t \in DOMAIN s.val |-> IF s.val[t] = NaN THEN NaN ELSE s.val[t] * num],
              !.den = s.den * den]

\* Series.to_numpy(): the values in index order
to_numpy(s) == [a |-> [i \in 1..Len(s.index) |-> s.val[s.index[i]]], den |-> s.den]

\* pd.Series(array, index=idx): the i-th value goes to the i-th label
SeriesOfArray(arr, idx) ==
    [index |-> idx, val |-> [t \in ToSet(idx) |-> arr.a[PosOf(t, idx)]], den |-> arr.den]

\* np.zeros(n)
zeros(n) == [a |-> [i \in 1..n |-> 0], den |-> WeightUnit]

\* np.nansum over the values of an array
nansum(arr) == SumSeq([i \in 1..Len(arr.a) |-> IF arr.a[i] = NaN THEN 0 ELSE arr.a[i]])

\* -------------------------------------------------------------- collaborators
\* filter_covar_and_vectors_for_nans: the matrix restricted to the assets with
\* no NaN and a strictly positive variance, order kept (good_vectors is not read
\* by the wrapper)
filter_covar_and_vectors_for_nans(pd_covar) ==
    LET good(t) == pd_covar.var[t] # NaN /\ pd_covar.var[t] > 0
        idx == SelectSeq(pd_covar.index, good)
    IN  [index |-> idx, var |-> [t \in ToSet(idx) |-> pd_covar.var[t]],
         squeezed |-> pd_covar.squeezed]

\* squeeze_covariance_matrix: blends towards the diagonal; the diagonal stays
squeeze_covariance_matrix(covar) == [covar EXCEPT !.squeezed = @ + 1]

\* Constraints.update_with_valid_tickers: a new Constraints restricted to the
\* valid tickers, weights_0 reindexed to them with 0 for the new ones;
\* total_to_good_ratio rescales the group allocations, and the Constraints
\* drawn here have no group
update_with_valid_tickers(constraints0, valid_tickers, total_to_good_ratio, weights_0) ==
    [min_weights |-> loc(constraints0.min_weights, valid_tickers),
     max_weights |-> loc(constraints0.max_weights, valid_tickers),
     weights_0 |-> IF weights_0.some
                   THEN Some(fillna(reindex(weights_0.v, valid_tickers), 0))
                   ELSE IF constraints0.weights_0.some
                        THEN Some(fillna(reindex(constraints0.weights_0.v, valid_tickers), 0))
                        ELSE None]

\* the weight vectors of length n on the grid
Arrays(n) == {[a |-> x, den |-> WeightUnit] : x \in [1..n -> 0..WeightUnit]}

\* Constraints.set_scipy_constraints: the feasible set of the derived
\* constraints: total weight 1, long only, box bounds
set_scipy_constraints(constraints, n) ==
    LET idx == constraints.min_weights.index
    IN  {x \in Arrays(n) :
            /\ SumSeq(x.a) = WeightUnit
            /\ \A i \in 1..n :
                  /\ x.a[i] >= 0
                  /\ x.a[i] >= constraints.min_weights.val[idx[i]]
                  /\ x.a[i] <= constraints.max_weights.val[idx[i]]}

\* calculate_risk_contribution times sig_p: x_i (covar x)_i, in units of 1/WeightUnit^2
calculate_risk_contribution(x, covar) ==
    [i \in 1..Len(x.a) |-> x.a[i] * covar.var[covar.index[i]] * x.a[i]]

\* calculate_portfolio_var: x' covar x, in units of 1/WeightUnit^2
calculate_portfolio_var(x, covar) == SumSeq(calculate_risk_contribution(x, covar))

\* ------------------------------------------------------------------ solver
\* risk_budget_objective(x, pars) with pars = [covar, budget].  asset_rc,
\* risk_target and their difference are carried multiplied by sig_p * scale,
\* where scale is the budget's denominator (the number of assets when there is
\* no budget), so sse is the code's sse times (sig_p * scale)^2.
risk_budget_objective(x, pars) ==
    LET covar == pars[1]
        budget == pars[2]
        n == Len(x.a)
        rc == calculate_risk_contribution(x, covar)
        var_p == calculate_portfolio_var(x, covar)
        scale == IF budget.some THEN budget.v.den ELSE n
        asset_rc == [i \in 1..n |-> scale * rc[i]]
        risk_target ==
            IF budget.some
            THEN [i \in 1..n |-> IF budget.v.a[i] = NaN THEN asset_rc[i]
                                 ELSE var_p * budget.v.a[i]]
            ELSE [i \in 1..n |-> var_p]
        sq == [i \in 1..n |-> (asset_rc[i] - risk_target[i]) * (asset_rc[i] - risk_target[i])]
    IN  [asset_rc |-> asset_rc, risk_target |-> risk_target, sse |-> SumSeq(sq)]

\* scipy.optimize.minimize(..., method='SLSQP', constraints=constraints_): a
\* converged result is a point of the feasible set, a result that did not
\* converge within maxiter holds the last iterate, any point; res.x is always
\* an array
minimize(n, constraints_) ==
    {[success |-> TRUE, x |-> Some(x)] : x \in constraints_}
    \cup {[success |-> FALSE, x |-> Some(x)] : x \in Arrays(n)}

\* the weights opt_equal_risk_contribution returns for the solver's result res
OptimalWeights(res, constraints, n) ==
    LET optimal_weights == res.x
    IN  IF ~optimal_weights.some
        THEN IF constraints.weights_0.some
             THEN to_numpy(constraints.weights_0.v)
             ELSE zeros(n)
        ELSE optimal_weights.v

\* a start vector taken from the warm start when there is one
StartVector_WarmStart(constraints, n) ==
    IF constraints.weights_0.some
    THEN to_numpy(constraints.weights_0.v)
    ELSE [a |-> [i \in 1..n |-> 1], den |-> n]

\* x0 = np.ones(n) / n: the start vector of every solve, whatever the
\* constraints and their weights_0
StartVector(constraints, n) == [a |-> [i \in 1..n |-> 1], den |-> n]

\* opt_equal_risk_contribution: every return the solver's outcomes allow, with
\* the start vector x0 = ones(n) / n and the objective at the solver's point
opt_equal_risk_contribution(covar, constraints, risk_budget) ==
    LET n == Len(covar.index)
        x0 == StartVector(constraints, n)
        constraints_ == set_scipy_constraints(constraints, n)
    IN  {[res |-> res, x0 |-> x0,
          objective |-> risk_budget_objective(res.x.v, <<covar, risk_budget>>),
          optimal_weights |-> OptimalWeights(res, constraints, n)] :
            res \in minimize(n, constraints_)}

\* what a call that raised leaves in the place of the solver's return
NoOpt ==
    [res |-> [success |-> FALSE, x |-> None], x0 |-> [a |-> <<>>, den |-> 1],
     objective |-> [asset_rc |-> <<>>, risk_target |-> <<>>, sse |-> 0],
     optimal_weights |-> zeros(0)]

\* the alignment without its fillna: a removed asset is left missing
AlignWithTickers_NoFill(weights, pd_covar) == reindex(weights, pd_covar.index)

\* weights.reindex(index=pd_covar.index).fillna(0.0)
AlignWithTickers(weights, pd_covar) == fillna(reindex(weights, pd_covar.index), 0)

\* risk_budget.loc[clean_covar.columns].fillna(0.0), then *= total_to_good_ratio
ScaledRiskBudget(risk_budget, clean_covar, num, den) ==
    imul(fillna(loc(risk_budget, clean_covar.index), 0), num, den)

\* the caller's series had `risk_budget *= total_to_good_ratio` acted on it
CallerRiskBudget_InPlace(risk_budget, num, den) ==
    IF risk_budget.some THEN Some(imul(risk_budget.v, num, den)) ELSE None

\* the caller's risk_budget object after lines 116-118: the name risk_budget is
\* rebound to the new series of .loc[...].fillna(0.0) before the in-place
\* multiply, which therefore leaves the caller's series as it was
CallerRiskBudget(risk_budget, num, den) == risk_budget

\* wrapper_equal_risk_contribution: every outcome of one call, a return
\* (raised = "none", weights the returned series) or an exception; caller holds
\* the caller's objects as the call leaves them (the filter, the squeeze and
\* update_with_valid_tickers return new objects)
wrapper_equal_risk_contribution(pd_covar, constraints0, weights_0, risk_budget, squeeze_factor) ==
    LET filtered == filter_covar_and_vectors_for_nans(pd_covar)
        clean_covar == IF squeeze_factor.some /\ squeeze_factor.v > 0
                       THEN squeeze_covariance_matrix(filtered)
                       ELSE filtered
        total == Len(pd_covar.index)
        good == Len(clean_covar.index)
        entered == [pd_covar |-> pd_covar, constraints0 |-> constraints0,
                    risk_budget |-> risk_budget]
    IN  IF good = 0
        THEN {[raised |-> "ZeroDivisionError", clean_covar |-> clean_covar,
               risk_budget |-> None, constraints |-> None,
               opt |-> NoOpt, weights |-> None, caller |-> entered]}
        ELSE
        LET base == [raised |-> "none", clean_covar |-> clean_covar,
                     risk_budget |-> None, constraints |-> None,
                     opt |-> NoOpt, weights |-> None,
                     caller |-> [entered EXCEPT
                                    !.risk_budget = CallerRiskBudget(risk_budget, total, good)]]
            budget == IF risk_budget.some
                      THEN Some(ScaledRiskBudget(risk_budget.v, clean_covar, total, good))
                      ELSE None
            constraints == update_with_valid_tickers(constraints0, clean_covar.index,
                                                     [num |-> total, den |-> good], weights_0)
        IN  IF ~budget.some
            THEN {[base EXCEPT !.raised = "AttributeError",
                               !.constraints = Some(constraints)]}
            ELSE {[base EXCEPT !.risk_budget = budget,
                               !.constraints = Some(constraints),
                               !.opt = o,
                               !.weights = Some(AlignWithTickers(
                                   SeriesOfArray(o.optimal_weights, clean_covar.index), pd_covar))] :
                    o \in opt_equal_risk_contribution(clean_covar, constraints,
                                                      Some(to_numpy(budget.v)))}

\* ------------------------------------------- the volatility-band solver
\* target_vol and the band's half-width 0.001 are carried in thousandths
\* vol_dt * sqrt(calculate_portfolio_var(x, covar)) >= bound / 1000, with
\* vol_dt = sqrt(af) and af = 12, compared through the squares
AnnualisedVolAtLeast(x, covar, bound) ==
    \/ bound <= 0
    \/ 12 * calculate_portfolio_var(x, covar) * 1000 * 1000 >= bound * bound * x.den * x.den

\* vol_dt * sqrt(calculate_portfolio_var(x, covar)) <= bound / 1000
AnnualisedVolAtMost(x, covar, bound) ==
    /\ bound >= 0
    /\ 12 * calculate_portfolio_var(x, covar) * 1000 * 1000 <= bound * bound * x.den * x.den

\* the positional parameters of portfolio_volatility_min and of
\* portfolio_volatility_max that have no default (af has one)
portfolio_volatility_params == <<"x", "covar", "target_vol", "freq_vol">>

\* scipy calls a constraint as fun(x, *args): a call that leaves a parameter
\* without default unfilled raises TypeError before the body runs
MissingArgument(params, args) == 1 + Len(args) < Len(params)

\* portfolio_volatility_min(x, *args): the sign of
\* vol_dt * sqrt(x' covar x) - (target_vol - 0.001), or the TypeError of the call
portfolio_volatility_min(x, args) ==
    IF MissingArgument(portfolio_volatility_params, args)
    THEN [raised |-> "TypeError", nonneg |-> FALSE]
    ELSE [raised |-> "none", nonneg |-> AnnualisedVolAtLeast(x, args[1], args[2] - 1)]

\* portfolio_volatility_max(x, *args): the sign of
\* -(vol_dt * sqrt(x' covar x) - (target_vol + 0.001)), or the TypeError of the call
portfolio_volatility_max(x, args) ==
    IF MissingArgument(portfolio_volatility_params, args)
    THEN [raised |-> "TypeError", nonneg |-> FALSE]
    ELSE [raised |-> "none", nonneg |-> AnnualisedVolAtMost(x, args[1], args[2] + 1)]

\* solve_risk_parity_constr_vol(covar, target_vol): every outcome of one call.
\* Both band constraints get 'args': (covar, target_vol); SLSQP evaluates every
\* constraint at x0 before its first iteration, and an exception of a
\* constraint function leaves minimize and the solver.  Otherwise res.x is
\* returned, a point of the band when the solve converged.
solve_risk_parity_constr_vol(covar, target_vol) ==
    LET n == Len(covar.index)
        x0 == [a |-> [i \in 1..n |-> 1], den |-> n]
        args == <<covar, target_vol>>
        cons == {x \in Arrays(n) :
                    /\ \A i \in 1..n : x.a[i] >= 0
                    /\ SumSeq(x.a) = WeightUnit
                    /\ portfolio_volatility_min(x, args).nonneg
                    /\ portfolio_volatility_max(x, args).nonneg}
        failed == [raised |-> "none", target_vol |-> target_vol, clean_covar |-> covar,
                   res |-> [success |-> FALSE, x |-> None], w_rb |-> None]
    IN  IF portfolio_volatility_min(x0, args).raised # "none"
        THEN {[failed EXCEPT !.raised = portfolio_volatility_min(x0, args).raised]}
        ELSE IF portfolio_volatility_max(x0, args).raised # "none"
        THEN {[failed EXCEPT !.raised = portfolio_volatility_max(x0, args).raised]}
        ELSE {[failed EXCEPT !.res = res, !.w_rb = res.x] : res \in minimize(n, cons)}

\* ------------------------------------------------------------------- state
VARIABLES
    pc,              \* "ready", "loop", "returned", "built" or "raised"
    entry,           \* the function called
    supplied,        \* whether the caller gave pd_covars
    constraints0,    \* the caller's Constraints
    risk_budget,     \* the caller's risk_budget (optional series)
    squeeze_factor,  \* the caller's squeeze_factor (optional number)
    pd_covars,       \* date -> covariance matrix, in the mapping's order
    weights_0,       \* the warm start carried by the loop (optional series)
    weights,         \* date -> returned series, in insertion order
    passed,          \* the weights_0 argument of each wrapper call so far
    table,           \* the WeightTable returned (optional)
    call             \* the last call of the wrapper or the solver: its
                     \* arguments and its outcome

vars == <<pc, entry, supplied, constraints0, risk_budget, squeeze_factor,
          pd_covars, weights_0, weights, passed, table, call>>

inputs == <<entry, supplied, constraints0, risk_budget, squeeze_factor, pd_covars>>

NoCall == [pd_covar |-> None, weights_0 |-> None, risk_budget |-> None, out |-> None]

\* the caller's objects after a call of the wrapper on pd_covars[k].covar
LeftToCaller(out, k) ==
    /\ constraints0' = out.caller.constraints0
    /\ risk_budget' = out.caller.risk_budget
    /\ pd_covars' = [pd_covars EXCEPT ![k].covar = out.caller.pd_covar]

\* ------------------------------------------------------------------ inputs
\* the diagonal entries drawn: NaN, zero variance, positive variance
VarValues == {NaN, 0, 1}

\* the covariance matrices over index idx, never squeezed
Covars(idx, values) ==
    {[index |-> idx, var |-> f, squeezed |-> 0] : f \in [ToSet(idx) -> values]}

\* the risk budgets over index idx: each entry unset (NaN) or a multiple of
\* 1/BudgetUnit, summing to at most 1
RiskBudgets(idx) ==
    {b \in {[index |-> idx, val |-> f, den |-> BudgetUnit] :
                f \in [ToSet(idx) -> {NaN} \cup 0..BudgetUnit]} :
        nansum(to_numpy(b)) <= BudgetUnit}

\* Constraints(is_long_only=True, min_weights=0, max_weights=m) over idx
LongOnly(idx, m, w0) ==
    [min_weights |-> Series(idx, [t \in ToSet(idx) |-> 0], WeightUnit),
     max_weights |-> Series(idx, [t \in ToSet(idx) |-> m], WeightUnit),
     weights_0 |-> w0]

\* a weight vector over idx: everything in the first asset
AllInFirst(idx) ==
    Series(idx, [t \in ToSet(idx) |-> IF t = idx[1] THEN WeightUnit ELSE 0], WeightUnit)

\* the indexes of the matrices handed to the wrapper or the solver alone
CovIndexes == {<<"A", "B", "C">>, <<"C", "A">>}

\* --------------------------------------------------------- one call alone
InitSolve ==
    /\ pc = "ready"
    /\ entry \in {"wrapper_equal_risk_contribution", "opt_equal_risk_contribution"}
    /\ supplied = FALSE
    /\ \E idx \in CovIndexes :
          /\ \E c \in Covars(idx, IF entry = "opt_equal_risk_contribution"
                                  THEN {1} ELSE VarValues) :
                pd_covars = <<[date |-> 1, covar |-> c]>>
          /\ risk_budget \in {None} \cup {Some(b) : b \in RiskBudgets(idx)}
          /\ weights_0 \in {None, Some(AllInFirst(idx))}
          /\ constraints0 \in {LongOnly(idx, m, None) : m \in {1, WeightUnit}}
    /\ squeeze_factor \in {None, Some(1)}
    /\ weights = <<>>
    /\ passed = <<>>
    /\ table = None
    /\ call = NoCall

\* a caller calls wrapper_equal_risk_contribution
CallWrapper ==
    /\ pc = "ready"
    /\ entry = "wrapper_equal_risk_contribution"
    /\ LET pd_covar == pd_covars[1].covar
       IN  \E out \in wrapper_equal_risk_contribution(pd_covar, constraints0, weights_0,
                                                      risk_budget, squeeze_factor) :
              /\ call' = [pd_covar |-> Some(pd_covar), weights_0 |-> weights_0,
                          risk_budget |-> risk_budget, out |-> Some(out)]
              /\ pc' = IF out.raised = "none" THEN "returned" ELSE "raised"
              /\ LeftToCaller(out, 1)
    /\ UNCHANGED <<entry, supplied, squeeze_factor, weights_0, weights, passed, table>>

\* a caller calls opt_equal_risk_contribution on a clean matrix, with the
\* budget as an array (NaN entries kept) or None
CallOpt ==
    /\ pc = "ready"
    /\ entry = "opt_equal_risk_contribution"
    /\ LET covar == pd_covars[1].covar
           constraints == [constraints0 EXCEPT !.weights_0 = weights_0]
           budget == IF risk_budget.some THEN Some(to_numpy(risk_budget.v)) ELSE None
       IN  \E o \in opt_equal_risk_contribution(covar, constraints, budget) :
              call' = [pd_covar |-> Some(covar), weights_0 |-> weights_0,
                       risk_budget |-> risk_budget,
                       out |-> Some([raised |-> "none", clean_covar |-> covar,
                                     risk_budget |-> IF risk_budget.some
                                                     THEN Some(risk_budget.v) ELSE None,
                                     constraints |-> Some(constraints), opt |-> o,
                                     weights |-> None])]
    /\ pc' = "returned"
    /\ UNCHANGED <<inputs, weights_0, weights, passed, table>>

NextSolve == CallWrapper \/ CallOpt

SpecSolve == InitSolve /\ [][NextSolve]_vars

\* ------------------------------------------------------- rolling drivers
Ewma == "rolling_equal_risk_contribution"

Lasso == "rolling_equal_risk_contribution_lasso_covar"

\* prices.columns.to_list()
prices_columns == <<"A", "B">>

\* the rebalancing dates of time_period, ascending
Dates == 1..MaxDates

\* the orders in which a caller's dict can hold the dates
Orders == {o \in [Dates -> Dates] : \A d \in Dates : \E i \in Dates : o[i] = d}

\* estimate_rolling_ewma_covar: a matrix per rebalancing date, dates ascending,
\* over the price columns; an asset without history has NaN entries
estimate_rolling_ewma_covar ==
    {m \in [Dates -> [date : Dates, covar : Covars(prices_columns, {NaN, 1})]] :
        \A d \in Dates : m[d].date = d}

\* estimate_rolling_lasso_covar(..., squeeze_factor): as above, each matrix
\* squeezed by the estimator when squeeze_factor is positive
estimate_rolling_lasso_covar(sf) ==
    {[d \in Dates |-> [date |-> d,
                       covar |-> IF sf.some /\ sf.v > 0
                                 THEN squeeze_covariance_matrix(m[d].covar)
                                 ELSE m[d].covar]] :
        m \in estimate_rolling_ewma_covar}

\* the mappings a caller can pass as pd_covars: the dates in any insertion
\* order, each matrix over the price columns or over a part of them
SuppliedCovars ==
    {m \in [Dates -> [date : Dates,
                      covar : Covars(prices_columns, {1}) \cup Covars(<<"A">>, {1})]] :
        \E o \in Orders : \A i \in Dates : m[i].date = o[i]}

\* the risk budgets of the rolling runs: none, one that sums to 1, one with
\* an unset entry
RollingBudgets ==
    {None}
    \cup {Some(b) : b \in {r \in RiskBudgets(prices_columns) :
                              \/ /\ r.val[prices_columns[1]] = 1
                                 /\ r.val[prices_columns[2]] = BudgetUnit - 1
                              \/ /\ r.val[prices_columns[1]] = NaN
                                 /\ r.val[prices_columns[2]] = BudgetUnit}}

Init ==
    /\ pc = "start"
    /\ entry \in {Ewma, Lasso}
    /\ supplied \in BOOLEAN
    /\ supplied => entry = Lasso
    /\ pd_covars \in IF supplied THEN SuppliedCovars ELSE {<<>>}
    /\ risk_budget \in RollingBudgets
    /\ constraints0 \in {LongOnly(prices_columns, m, None) : m \in {1, WeightUnit}}
    /\ squeeze_factor \in {None, Some(1)}
    /\ weights_0 = None
    /\ weights = <<>>
    /\ passed = <<>>
    /\ table = None
    /\ call = NoCall

\* rolling_equal_risk_contribution: the covariance estimate
EstimateEwma ==
    /\ pc = "start"
    /\ entry = Ewma
    /\ pd_covars' \in estimate_rolling_ewma_covar
    /\ pc' = "loop"
    /\ UNCHANGED <<entry, supplied, constraints0, risk_budget, squeeze_factor,
                   weights_0, weights, passed, table, call>>

\* rolling_equal_risk_contribution_lasso_covar: the estimate, made only when
\* the caller gave no pd_covars
EstimateLasso ==
    /\ pc = "start"
    /\ entry = Lasso
    /\ pd_covars' \in IF supplied THEN {pd_covars}
                      ELSE estimate_rolling_lasso_covar(squeeze_factor)
    /\ pc' = "loop"
    /\ UNCHANGED <<entry, supplied, constraints0, risk_budget, squeeze_factor,
                   weights_0, weights, passed, table, call>>

\* one pass of the loop over pd_covars.items(): the wrapper's call, then the
\* warm start and the date's entry; an exception of the wrapper leaves the driver
Iterate ==
    /\ pc = "loop"
    /\ Len(weights) < Len(pd_covars)
    /\ LET item == pd_covars[Len(weights) + 1]
       IN  \E out \in wrapper_equal_risk_contribution(item.covar, constraints0, weights_0,
                                                      risk_budget, squeeze_factor) :
              /\ call' = [pd_covar |-> Some(item.covar), weights_0 |-> weights_0,
                          risk_budget |-> risk_budget, out |-> Some(out)]
              /\ passed' = Append(passed, weights_0)
              /\ IF out.raised = "none"
                 THEN /\ weights_0' = out.weights
                      /\ weights' = Append(weights, [date |-> item.date, row |-> out.weights.v])
                      /\ pc' = "loop"
                 ELSE /\ pc' = "raised"
                      /\ UNCHANGED <<weights_0, weights>>
              /\ LeftToCaller(out, Len(weights) + 1)
    /\ UNCHANGED <<entry, supplied, squeeze_factor, table>>

\* pd.DataFrame.from_dict(weights, orient='index').reindex(columns=prices.columns):
\* a row per entry, a column per price column, NaN where the row has no such label
WeightTable(w, columns) ==
    [columns |-> columns,
     rows |-> [j \in 1..Len(w) |-> [date |-> w[j].date, row |-> reindex(w[j].row, columns)]]]

\* the loop has ended: the drivers build and return the WeightTable
Return ==
    /\ pc = "loop"
    /\ Len(weights) = Len(pd_covars)
    /\ table' = Some(WeightTable(weights, prices_columns))
    /\ pc' = "built"
    /\ UNCHANGED <<inputs, weights_0, weights, passed, call>>

Next == EstimateEwma \/ EstimateLasso \/ Iterate \/ Return

Spec == Init /\ [][Next]_vars

\* ------------------------------------- a run of identical matrices
\* the dates of a run without regime change: one more than MaxDates
StableDates == 1..(MaxDates + 1)

\* the estimate of a price history without regime change: the same matrix on
\* every date, squeezed by the regression estimator when squeeze_factor is positive
StableCovars(entry_, sf) ==
    {[d \in StableDates |->
         [date |-> d,
          covar |-> IF entry_ = Lasso /\ sf.some /\ sf.v > 0
                    THEN squeeze_covariance_matrix(c) ELSE c]] :
        c \in Covars(prices_columns, {NaN, 1})}

\* what a call of the wrapper hands to scipy's minimize: the start vector, the
\* objective's args and the constraint functions
SolverInputs(out) ==
    [x0 |-> out.opt.x0,
     args |-> <<out.clean_covar, out.risk_budget>>,
     constraints_ |-> set_scipy_constraints(out.constraints.v, Len(out.clean_covar.index))]

\* SLSQP is a deterministic procedure: two calls of minimize with the same
\* start vector, args and constraints end with the same result
SameInputsSameResult(prev, out) ==
    (/\ prev.some
     /\ prev.v.raised = "none"
     /\ out.raised = "none"
     /\ SolverInputs(prev.v) = SolverInputs(out))
        => out.opt.res = prev.v.opt.res

InitStable ==
    /\ pc = "start"
    /\ entry \in {Ewma, Lasso}
    /\ supplied = FALSE
    /\ pd_covars = <<>>
    /\ risk_budget \in RollingBudgets
    /\ constraints0 \in {LongOnly(prices_columns, m, None) : m \in {1, WeightUnit}}
    /\ squeeze_factor \in {None, Some(1)}
    /\ weights_0 = None
    /\ weights = <<>>
    /\ passed = <<>>
    /\ table = None
    /\ call = NoCall

\* the covariance estimate of either driver, on a history without regime change
EstimateStable ==
    /\ pc = "start"
    /\ pd_covars' \in StableCovars(entry, squeeze_factor)
    /\ pc' = "loop"
    /\ UNCHANGED <<entry, supplied, constraints0, risk_budget, squeeze_factor,
                   weights_0, weights, passed, table, call>>

\* one pass of the loop, the solver being the same procedure on every date
IterateStable ==
    /\ pc = "loop"
    /\ Len(weights) < Len(pd_covars)
    /\ LET item == pd_covars[Len(weights) + 1]
       IN  \E out \in wrapper_equal_risk_contribution(item.covar, constraints0, weights_0,
                                                      risk_budget, squeeze_factor) :
              /\ SameInputsSameResult(call.out, out)
              /\ call' = [pd_covar |-> Some(item.covar), weights_0 |-> weights_0,
                          risk_budget |-> risk_budget, out |-> Some(out)]
              /\ passed' = Append(passed, weights_0)
              /\ IF out.raised = "none"
                 THEN /\ weights_0' = out.weights
                      /\ weights' = Append(weights, [date |-> item.date, row |-> out.weights.v])
                      /\ pc' = "loop"
                 ELSE /\ pc' = "raised"
                      /\ UNCHANGED <<weights_0, weights>>
              /\ LeftToCaller(out, Len(weights) + 1)
    /\ UNCHANGED <<entry, supplied, squeeze_factor, table>>

NextStable == EstimateStable \/ IterateStable \/ Return

SpecStable == InitStable /\ [][NextStable]_vars

\* ------------------------------------ the volatility-band solver alone
ConstrVol == "solve_risk_parity_constr_vol"

\* the target volatilities drawn, in thousandths: 0, 0.001, 0.1, 0.15, 3.464
TargetVols == {0, 1, 100, 150, 3464}

InitConstrVol ==
    /\ pc = "ready"
    /\ entry = ConstrVol
    /\ supplied = FALSE
    /\ \E idx \in CovIndexes :
          /\ \E c \in Covars(idx, {1, 2, 3}) : pd_covars = <<[date |-> 1, covar |-> c]>>
          /\ constraints0 = LongOnly(idx, WeightUnit, None)
    /\ risk_budget = None
    /\ squeeze_factor = None
    /\ weights_0 = None
    /\ weights = <<>>
    /\ passed = <<>>
    /\ table = None
    /\ call = NoCall

\* a caller calls solve_risk_parity_constr_vol with a numeric target_vol
CallConstrVol ==
    /\ pc = "ready"
    /\ entry = ConstrVol
    /\ LET covar == pd_covars[1].covar
       IN  \E target_vol \in TargetVols :
           \E out \in solve_risk_parity_constr_vol(covar, target_vol) :
              /\ call' = [pd_covar |-> Some(covar), weights_0 |-> None,
                          risk_budget |-> None, out |-> Some(out)]
              /\ pc' = IF out.raised = "none" THEN "returned" ELSE "raised"
    /\ UNCHANGED <<inputs, weights_0, weights, passed, table>>

NextConstrVol == CallConstrVol

SpecConstrVol == InitConstrVol /\ [][NextConstrVol]_vars

\* ------------------------------------------------------------------ claims
Wrapper == "wrapper_equal_risk_contribution"

\* the last call has ended, by a return or by an exception
Ended == pc \in {"returned", "raised"}

\* the fallback of a solve that did not converge: the derived constraints'
\* weights_0 if present, else zeros
Fallback(constraints, n) ==
    IF constraints.weights_0.some THEN to_numpy(constraints.weights_0.v) ELSE zeros(n)

\* C1: whenever the numerical solve does not converge, opt_equal_risk_contribution
\* returns constraints.weights_0 if present, otherwise the all-zero vector of
\* length n, and never the solver's unconverged iterate.
C1_NonConvergenceFallsBack ==
    (pc = "returned" /\ ~call.out.v.opt.res.success)
        => call.out.v.opt.optimal_weights
              = Fallback(call.out.v.constraints.v, Len(call.out.v.clean_covar.index))

\* C2: a call of wrapper_equal_risk_contribution whose matrix leaves no valid
\* asset after filtering returns the all-zero vector over the full index of the
\* matrix and does not raise.
C2_NoValidAssetGivesZeros ==
    (entry = Wrapper /\ Ended /\ Len(call.out.v.clean_covar.index) = 0)
        => /\ pc = "returned"
           /\ call.out.v.weights.some
           /\ LET idx == call.pd_covar.v.index
              IN  call.out.v.weights.v = Series(idx, [t \in ToSet(idx) |-> 0], WeightUnit)

\* C3: with risk_budget None a solve over at least one valid asset completes,
\* and every valid asset's target is the portfolio volatility divided by the
\* number of valid assets (in the objective's scaling: the portfolio variance).
C3_NoBudgetEqualSplit ==
    (Ended /\ ~call.risk_budget.some /\ Len(call.out.v.clean_covar.index) > 0)
        => /\ pc = "returned"
           /\ LET o == call.out.v.opt
                  n == Len(call.out.v.clean_covar.index)
              IN  /\ Len(o.objective.risk_target) = n
                  /\ \A i \in 1..n :
                        o.objective.risk_target[i]
                            = calculate_portfolio_var(o.res.x.v, call.out.v.clean_covar)

\* C7: the series wrapper_equal_risk_contribution returns has the full index of
\* the input matrix in its order; a kept asset carries the weight the solver
\* returned for it, a removed asset carries 0.
C7_FullIndexZeroFill ==
    (entry = Wrapper /\ pc = "returned")
        => LET out == call.out.v
               idx == call.pd_covar.v.index
               clean == out.clean_covar.index
           IN  /\ out.weights.v.index = idx
               /\ \A t \in ToSet(idx) :
                     out.weights.v.val[t]
                         = IF t \in ToSet(clean)
                           THEN out.opt.optimal_weights.a[PosOf(t, clean)]
                           ELSE 0

\* C7 witness: a return where an asset was removed and a kept asset, whose
\* place among the kept differs from its place in the matrix, has a positive weight
C7_Witness ==
    /\ entry = Wrapper
    /\ pc = "returned"
    /\ LET out == call.out.v
           idx == call.pd_covar.v.index
           clean == out.clean_covar.index
       IN  /\ Len(clean) = 2
           /\ Len(idx) = 3
           /\ \E t \in ToSet(clean) :
                 /\ PosOf(t, clean) # PosOf(t, idx)
                 /\ out.weights.v.val[t] > 0
                 /\ out.weights.v.val[clean[1]] # out.weights.v.val[clean[2]]

\* C9: in every completed solve, reached through opt_equal_risk_contribution or
\* through wrapper_equal_risk_contribution, a valid asset whose risk-budget
\* entry is unset (NaN) has its own risk contribution as target.
C9_UnsetBudgetNoPenalty ==
    (pc = "returned" /\ call.risk_budget.some)
        => LET out == call.out.v
               clean == out.clean_covar.index
           IN  \A i \in 1..Len(clean) :
                  call.risk_budget.v.val[clean[i]] = NaN
                      => out.opt.objective.risk_target[i] = out.opt.objective.asset_rc[i]

\* C10: for a risk budget summing to at most 1 over the full universe, the
\* budget the wrapper hands to the solver sums to at most 1 over the valid assets.
C10_ScaledBudgetAtMostOne ==
    (/\ entry = Wrapper
     /\ pc = "returned"
     /\ nansum(to_numpy(call.risk_budget.v)) <= call.risk_budget.v.den)
        => LET handed == call.out.v.risk_budget.v
           IN  nansum(to_numpy(handed)) <= handed.den

\* the weight vector of a solve that succeeded: total weight 1, every weight
\* non-negative and inside the bounds of constraints0
SolvedRow(row) ==
    /\ SumSeq(to_numpy(row).a) = WeightUnit
    /\ \A t \in ToSet(row.index) :
          /\ row.val[t] >= 0
          /\ row.val[t] >= constraints0.min_weights.val[t]
          /\ row.val[t] <= constraints0.max_weights.val[t]

ZeroRow(row) == \A t \in ToSet(row.index) : row.val[t] = 0

\* C4: for any sequence of per-date covariance matrices, a rolling driver
\* called with a risk budget never aborts on a date: no exception leaves the
\* loop, and the returned WeightTable has one row for every date of the mapping.
C4_LoopNeverAborts ==
    risk_budget.some
        => /\ pc # "raised"
           /\ pc = "built"
                 => /\ Len(table.v.rows) = Len(pd_covars)
                    /\ \A j \in 1..Len(pd_covars) :
                          table.v.rows[j].date = pd_covars[j].date

\* C5: the dates are processed in ascending order, the first date is solved
\* without warm start, and the weights_0 of every later date is the row the
\* WeightTable holds for the date before it, also with caller-supplied pd_covars.
C5_WarmStartThreading ==
    pc = "built"
        => /\ \A j \in 1..Len(weights) - 1 : weights[j].date < weights[j + 1].date
           /\ passed[1] = None
           /\ \A j \in 2..Len(passed) : passed[j] = Some(table.v.rows[j - 1].row)

\* C6: every row recorded by the rolling driver is the vector of a solve that
\* succeeded, or the fallback: the previous date's vector, or all zeros.
C6_RowsSolvedOrFallback ==
    \A j \in 1..Len(weights) :
        \/ SolvedRow(weights[j].row)
        \/ j > 1 /\ weights[j].row = weights[j - 1].row
        \/ ZeroRow(weights[j].row)

\* C8: the WeightTable has the price columns in their order and a number in
\* every cell: an asset absent from a date's solve or from that date's
\* covariance matrix has weight 0, never a missing value.
C8_TableHasNoMissingValue ==
    pc = "built"
        => /\ table.v.columns = prices_columns
           /\ \A j \in 1..Len(table.v.rows) :
                 LET row == table.v.rows[j].row
                 IN  /\ row.index = prices_columns
                     /\ \A t \in ToSet(prices_columns) :
                           /\ row.val[t] # NaN
                           /\ t \notin ToSet(pd_covars[j].covar.index) => row.val[t] = 0

\* C11: on every rebalancing date the matrix handed to the solver has been
\* squeezed once when squeeze_factor > 0 and never otherwise, in the EWMA
\* driver and in the regression driver alike.
C11_SqueezedSameInBothModes ==
    (entry \in {Ewma, Lasso} /\ call.out.some /\ call.out.v.raised = "none")
        => call.out.v.clean_covar.squeezed
              = IF squeeze_factor.some /\ squeeze_factor.v > 0 THEN 1 ELSE 0

\* C12: over rebalancing dates with identical covariance matrices the rolling
\* driver records the same weight vector on every date: the warm start, absent
\* on the first date and the previous solution afterwards, does not change the
\* solution, every solve starting from the equal-weight vector over the valid
\* assets.
C12_SameWeightsOnIdenticalDates ==
    /\ \A j \in 2..Len(weights) : weights[j].row = weights[1].row
    /\ (call.out.some /\ call.out.v.raised = "none")
          => LET n == Len(call.out.v.clean_covar.index)
             IN  call.out.v.opt.x0 = [a |-> [i \in 1..n |-> 1], den |-> n]

\* C12 witness: the table is built over all the dates, the first solve had no
\* warm start and the later ones had the previous solution, which is a full
\* portfolio other than the equal-weight vector
C12_Witness ==
    /\ pc = "built"
    /\ Len(weights) = MaxDates + 1
    /\ passed[1] = None
    /\ \A j \in 2..Len(passed) : passed[j] = Some(weights[j - 1].row)
    /\ SumSeq(to_numpy(weights[1].row).a) = WeightUnit
    /\ weights[1].row.val[prices_columns[1]] # weights[1].row.val[prices_columns[2]]

C14_ConstrVolReturnsInBand ==
    (entry = ConstrVol /\ Ended)
        => /\ pc = "returned"
           /\ call.out.v.w_rb.some
           /\ call.out.v.res.success
                 => /\ AnnualisedVolAtLeast(call.out.v.w_rb.v, call.pd_covar.v,
                                            call.out.v.target_vol - 1)
                    /\ AnnualisedVolAtMost(call.out.v.w_rb.v, call.pd_covar.v,
                                           call.out.v.target_vol + 1)

====
